---- MODULE Spec2Model ----
(***************************************************************************)
(* Model of the GPX altitude pipeline (src/api/gpx-to-alt.cjs).            *)
(*                                                                         *)
(* The pipeline reads a track file, collects its coordinate nodes, looks   *)
(* their elevations up in batches with retries, injects the altitudes back *)
(* into the parsed tree and writes the result.  The script is one control  *)
(* flow that suspends only at `await`; each action below is the code that  *)
(* runs between two suspension points.                                     *)
(*                                                                         *)
(* Representation                                                          *)
(*   - a string is a sequence of one-character strings, so that distinct   *)
(*     tokens such as "48.0" and "48.00" are distinct values and parsing   *)
(*     and formatting are real computations;                               *)
(*   - a number read by Number() is a decimal [fin, m, e] = m / 10^e,      *)
(*     normalised;                                                         *)
(*   - elevations sent by the service are integers in hundredths of a      *)
(*     metre, altitudes after rounding are integers in tenths of a metre;  *)
(*   - the parsed tree is an arena: a sequence of nodes (objects and       *)
(*     arrays) whose fields hold strings, numbers or references to nodes.  *)
(***************************************************************************)
EXTENDS Integers, Sequences, FiniteSets, TLC

(***************************************************************************)
(* Bounds and program constants                                            *)
(***************************************************************************)

\* Batch size used by the model.  The source sets BATCH_SIZE = 100; the loop
\* is checked with a scaled-down size so that several batches are formed.
MaxBatch == 2

\* The largest number of points of a file uploaded to the server.
MaxUpload == 3

BATCH_SIZE == MaxBatch

SLEEP_MS == 150

RETRIES == 3

BACKOFF_MS == 250

(***************************************************************************)
(* JavaScript values                                                       *)
(***************************************************************************)

\* null, undefined and numbers, as held in `alts` and in the Map.
Null == [t |-> "null", v |-> 0]

Undefined == [t |-> "undefined", v |-> 0]

Number(n) == [t |-> "num", v |-> n]

\* Variant of LooseNull: `x === undefined`, which lets null through.
StrictUndefined(x) == x.t = "undefined"

\* `x == null` of JavaScript: true of null and of undefined.
LooseNull(x) == x.t \in {"null", "undefined"}

(***************************************************************************)
(* Strings and numbers                                                     *)
(***************************************************************************)

Digits == <<"0", "1", "2", "3", "4", "5", "6", "7", "8", "9">>

IsDigit(c) == \E d \in 1..10 : Digits[d] = c

DigitVal(c) == (CHOOSE d \in 1..10 : Digits[d] = c) - 1

RECURSIVE DigitsVal(_)
DigitsVal(s) ==
    IF s = <<>> THEN 0
    ELSE 10 * DigitsVal(SubSeq(s, 1, Len(s) - 1)) + DigitVal(s[Len(s)])

RECURSIVE Normalise(_, _)
Normalise(m, e) ==
    IF e > 0 /\ m % 10 = 0 THEN Normalise(m \div 10, e - 1)
    ELSE [fin |-> TRUE, m |-> m, e |-> e]

NaN == [fin |-> FALSE, m |-> 0, e |-> 0]

\* Number(str) for decimal literals: "" is 0, an optional sign, digits with
\* at most one ".", at least one digit; anything else is NaN.
StringToNumber(s) ==
    IF s = <<>> THEN Normalise(0, 0)
    ELSE
      LET signed == s[1] \in {"-", "+"}
          body   == IF signed THEN SubSeq(s, 2, Len(s)) ELSE s
          dots   == {k \in 1..Len(body) : body[k] = "."}
          dot    == IF dots = {} THEN Len(body) + 1 ELSE CHOOSE k \in dots : TRUE
          int    == SubSeq(body, 1, dot - 1)
          frac   == SubSeq(body, dot + 1, Len(body))
          ds     == int \o frac
      IN  IF Cardinality(dots) > 1 \/ ds = <<>> \/ \E k \in 1..Len(ds) : ~IsDigit(ds[k])
          THEN NaN
          ELSE LET mag == DigitsVal(ds)
               IN  Normalise(IF s[1] = "-" THEN -mag ELSE mag, Len(frac))

RECURSIVE NatToString(_)
NatToString(n) ==
    IF n < 10 THEN <<Digits[n + 1]>>
    ELSE NatToString(n \div 10) \o <<Digits[(n % 10) + 1]>>

\* String(x) of a number with at most one decimal, given in tenths.
TenthsToString(t) ==
    LET a    == IF t < 0 THEN -t ELSE t
        sign == IF t < 0 THEN <<"-">> ELSE <<>>
    IN  sign \o NatToString(a \div 10)
             \o (IF a % 10 = 0 THEN <<>> ELSE <<".", Digits[(a % 10) + 1]>>)

\* Math.round(a * 10) / 10 for a in hundredths, result in tenths: Math.round
\* rounds half towards +Infinity.
RoundTenth(a) == (a + 5) \div 10

(***************************************************************************)
(* The parsed tree                                                         *)
(***************************************************************************)

Str(tok) == [vk |-> "str", tok |-> tok, num |-> 0, ref |-> 0]

Num(n) == [vk |-> "num", tok |-> <<>>, num |-> n, ref |-> 0]

Ref(id) == [vk |-> "node", tok |-> <<>>, num |-> 0, ref |-> id]

Fld(name, val) == [name |-> name, val |-> val]

Obj(fields) == [kind |-> "obj", fields |-> fields]

Arr(items) == [kind |-> "arr", fields |-> [k \in 1..Len(items) |-> Fld("", items[k])]]

\* Object.prototype.hasOwnProperty.call(node, name)
HasOwnProperty(node, name) == \E k \in 1..Len(node.fields) : node.fields[k].name = name

\* node[name], for a property the node has
GetField(node, name) ==
    node.fields[CHOOSE k \in 1..Len(node.fields) : node.fields[k].name = name].val

\* String(v) of a field value: a string is itself, a number is printed, an
\* array joins its items with ",", any other object is "[object Object]".
RECURSIVE StringOf(_, _)
RECURSIVE JoinItems(_, _, _)
StringOf(tree, v) ==
    CASE v.vk = "str" -> v.tok
      [] v.vk = "num" -> TenthsToString(v.num)
      [] OTHER ->
           IF tree[v.ref].kind = "arr" THEN JoinItems(tree, tree[v.ref].fields, 1)
           ELSE <<"[object Object]">>

JoinItems(tree, items, k) ==
    IF k > Len(items) THEN <<>>
    ELSE (IF k > 1 THEN <<",">> ELSE <<>>)
         \o StringOf(tree, items[k].val) \o JoinItems(tree, items, k + 1)

(***************************************************************************)
(* Trackpoint collector                                                    *)
(***************************************************************************)

\* The reference pushed for a node with finite lat and lon.
TrkptRef(tree, id) ==
    LET node   == tree[id]
        latStr == StringOf(tree, GetField(node, "lat"))
        lonStr == StringOf(tree, GetField(node, "lon"))
    IN  [ref |-> id, latStr |-> latStr, lonStr |-> lonStr,
         latNum |-> StringToNumber(latStr), lonNum |-> StringToNumber(lonStr)]

\* collectTrkptRefs(node, out): pre-order walk over arrays and objects.
RECURSIVE collectTrkptRefs(_, _, _)
RECURSIVE CollectEach(_, _, _, _)
\* Variant of collectTrkptRefs: a node is pushed after its fields are walked.
collectTrkptRefsPostOrder(tree, v, out) ==
    IF v.vk # "node" THEN out
    ELSE
      LET node == tree[v.ref]
          below == CollectEach(tree, node.fields, 1, out)
      IN  IF node.kind = "arr" THEN below
          ELSE IF HasOwnProperty(node, "lat") /\ HasOwnProperty(node, "lon")
               THEN LET p == TrkptRef(tree, v.ref)
                    IN  IF p.latNum.fin /\ p.lonNum.fin THEN Append(below, p) ELSE below
               ELSE below

collectTrkptRefs(tree, v, out) ==
    IF v.vk # "node" THEN out
    ELSE
      LET node == tree[v.ref]
      IN  IF node.kind = "arr" THEN CollectEach(tree, node.fields, 1, out)
          ELSE
            LET here ==
                  IF HasOwnProperty(node, "lat") /\ HasOwnProperty(node, "lon")
                  THEN LET p == TrkptRef(tree, v.ref)
                       IN  IF p.latNum.fin /\ p.lonNum.fin THEN Append(out, p) ELSE out
                  ELSE out
            IN  CollectEach(tree, node.fields, 1, here)

CollectEach(tree, fields, k, out) ==
    IF k > Len(fields) THEN out
    ELSE CollectEach(tree, fields, k + 1, collectTrkptRefs(tree, fields[k].val, out))

(***************************************************************************)
(* The parser: parser.parse(xml) with the options of the source, which     *)
(* leave preserveOrder off.  The source text is a sequence of elements,    *)
(* each with its attributes, its child elements in the order of the text,  *)
(* and its text.  The parser turns an element into an object whose fields  *)
(* are keyed by name: the children that share a tag become ONE field, an   *)
(* array placed where the first of them stood, and the attributes follow   *)
(* the children.                                                           *)
(***************************************************************************)

Elem(tag, attrs, kids, text) == [tag |-> tag, attrs |-> attrs, kids |-> kids, text |-> text]

\* <tag name="tok" .../>
Attr(name, tok) == Fld(name, Str(tok))

\* The text of a leaf element: a decimal literal becomes a number (held in
\* tenths), any other text stays a string.
TagValue(text) ==
    LET n == StringToNumber(text)
    IN  IF text # <<>> /\ n.fin /\ n.e <= 1
        THEN Num(IF n.e = 0 THEN 10 * n.m ELSE n.m)
        ELSE Str(text)

\* The members of a finite set of integers, in increasing order.
RECURSIVE Sorted(_)
Sorted(S) ==
    IF S = {} THEN <<>>
    ELSE LET m == CHOOSE x \in S : \A y \in S : x <= y
         IN  <<m>> \o Sorted(S \ {m})

\* The number of elements of a subtree of the text, and of the first k
\* children of an element.
RECURSIVE Size(_)
RECURSIVE SizeUpTo(_, _)
Size(e) == 1 + SizeUpTo(e.kids, Len(e.kids))

SizeUpTo(kids, k) == IF k = 0 THEN 0 ELSE SizeUpTo(kids, k - 1) + Size(kids[k])

\* The position in the text of the start tag of child k of the element at
\* position p (the rank of the start tag among all start tags).
KidPos(e, p, k) == p + 1 + SizeUpTo(e.kids, k - 1)

\* st = [tree, pos]: the arena built so far and, for each of its nodes, the
\* position in the text of the element it came from (0 for an array, which
\* comes from no single element).  ParseElem adds `val`, the value of e.
RECURSIVE ParseElem(_, _, _)
RECURSIVE ParseGroups(_, _, _, _, _)
RECURSIVE ParseItems(_, _, _, _, _)
ParseElem(e, p, st) ==
    IF e.kids = <<>> /\ e.attrs = <<>>
    THEN [tree |-> st.tree, pos |-> st.pos, val |-> TagValue(e.text)]
    ELSE
      LET id     == Len(st.tree) + 1
          firsts == Sorted({k \in 1..Len(e.kids) :
                              \A j \in 1..(k - 1) : e.kids[j].tag # e.kids[k].tag})
          r      == ParseGroups(e, p, firsts, 1,
                                [tree |-> Append(st.tree, Obj(<<>>)),
                                 pos |-> Append(st.pos, p), fields |-> <<>>])
      IN  [tree |-> [r.tree EXCEPT ![id] = Obj(r.fields \o e.attrs)],
           pos |-> r.pos, val |-> Ref(id)]

ParseGroups(e, p, firsts, g, st) ==
    IF g > Len(firsts) THEN st
    ELSE
      LET k       == firsts[g]
          tag     == e.kids[k].tag
          members == Sorted({j \in 1..Len(e.kids) : e.kids[j].tag = tag})
      IN  IF Len(members) = 1
          THEN LET r == ParseElem(e.kids[k], KidPos(e, p, k),
                                  [tree |-> st.tree, pos |-> st.pos])
               IN  ParseGroups(e, p, firsts, g + 1,
                               [tree |-> r.tree, pos |-> r.pos,
                                fields |-> Append(st.fields, Fld(tag, r.val))])
          ELSE LET arrId == Len(st.tree) + 1
                   r == ParseItems(e, p, members, 1,
                                   [tree |-> Append(st.tree, Arr(<<>>)),
                                    pos |-> Append(st.pos, 0), items |-> <<>>])
               IN  ParseGroups(e, p, firsts, g + 1,
                               [tree |-> [r.tree EXCEPT ![arrId] = Arr(r.items)],
                                pos |-> r.pos,
                                fields |-> Append(st.fields, Fld(tag, Ref(arrId)))])

ParseItems(e, p, members, m, st) ==
    IF m > Len(members) THEN st
    ELSE LET j == members[m]
             r == ParseElem(e.kids[j], KidPos(e, p, j),
                            [tree |-> st.tree, pos |-> st.pos])
         IN  ParseItems(e, p, members, m + 1,
                        [tree |-> r.tree, pos |-> r.pos,
                         items |-> Append(st.items, r.val)])

\* parser.parse(xml): the document is the object whose fields are the
\* top-level elements of the text.
Parse(tops) == ParseElem(Elem("", <<>>, tops, <<>>), 0, [tree |-> <<>>, pos |-> <<>>])

(***************************************************************************)
(* Input documents: the trees parser.parse(xml) yields for the track files *)
(* the model runs the pipeline on.                                         *)
(***************************************************************************)

T1 == <<"1">>
T2 == <<"2">>
T3 == <<"3">>
T4 == <<"4">>
T5 == <<"5">>
T48_0 == <<"4", "8", ".", "0">>
T48_00 == <<"4", "8", ".", "0", "0">>
TNeg == <<"-", "1", ".", "5">>
TBad == <<"a", "b", "c">>

\* <trkpt lat=".." lon=".."/>
Pt(lat, lon) == <<Fld("lat", Str(lat)), Fld("lon", Str(lon))>>

\* <trkpt lat=".." lon=".."><ele>..</ele></trkpt>, ele in tenths of a metre
PtEle(lat, lon, ele) == <<Fld("ele", Num(ele)), Fld("lat", Str(lat)), Fld("lon", Str(lon))>>

\* <trkpt lat=".." lon=".." alt=".."/>
PtAlt(lat, lon, alt) == <<Fld("lat", Str(lat)), Fld("lon", Str(lon)), Fld("alt", Str(alt))>>

\* <gpx version="1.1"><trk><name>t</name><trkseg> pts </trkseg></trk></gpx>
\* with at least two <trkpt>, which the parser groups into an array.
TrkDoc(pts) ==
    << Obj(<<Fld("gpx", Ref(2))>>),
       Obj(<<Fld("trk", Ref(3)), Fld("version", Str(<<"1", ".", "1">>))>>),
       Obj(<<Fld("name", Str(<<"t">>)), Fld("trkseg", Ref(4))>>),
       Obj(<<Fld("trkpt", Ref(5))>>),
       Arr([k \in 1..Len(pts) |-> Ref(5 + k)]) >>
    \o [k \in 1..Len(pts) |-> Obj(pts[k])]

\* No eligible node: an empty segment, a waypoint without lon, a waypoint
\* whose lat is not a number.
DocNone ==
    << Obj(<<Fld("gpx", Ref(2))>>),
       Obj(<<Fld("wpt", Ref(3)), Fld("trk", Ref(6))>>),
       Arr(<<Ref(4), Ref(5)>>),
       Obj(<<Fld("lat", Str(T1))>>),
       Obj(<<Fld("lat", Str(TBad)), Fld("lon", Str(T2))>>),
       Obj(<<Fld("trkseg", Str(<<>>))>>) >>

\* One trackpoint (an object, not an array), carrying both <ele> and alt="".
DocOne ==
    << Obj(<<Fld("?xml", Ref(2)), Fld("gpx", Ref(3))>>),
       Obj(<<Fld("version", Str(<<"1", ".", "0">>))>>),
       Obj(<<Fld("trk", Ref(4))>>),
       Obj(<<Fld("trkseg", Ref(5))>>),
       Obj(<<Fld("trkpt", Ref(6))>>),
       Obj(<<Fld("ele", Num(500)), Fld("lat", Str(TNeg)), Fld("lon", Str(T2)),
             Fld("alt", Str(<<"7">>))>>) >>

\* Tokens: "48.0" and "48.00" are the same number; "48.0" occurs twice, on
\* nodes that differ in the altitude they already carry.
DocTokens ==
    TrkDoc(<< PtEle(T48_0, T2, 500), Pt(T48_00, T2), PtAlt(T48_0, T2, <<"9">>) >>)

\* Five eligible points and a malformed one between them.
DocFive ==
    TrkDoc(<< Pt(T1, T2), PtEle(T2, T2, 20), Pt(TBad, T2), Pt(T3, T2),
              PtAlt(T4, T2, <<"4">>), Pt(T5, T2) >>)

\* A waypoint before the track, two segments (an array), the first with two
\* points (an array) of which the second has no lon, the second with one (an
\* object) that holds a nested node with coordinates of its own.
DocNested ==
    << Obj(<<Fld("gpx", Ref(2))>>),
       Obj(<<Fld("wpt", Ref(3)), Fld("trk", Ref(4))>>),
       Obj(<<Fld("lat", Str(T1)), Fld("lon", Str(T1)), Fld("name", Str(<<"w">>))>>),
       Obj(<<Fld("trkseg", Ref(5))>>),
       Arr(<<Ref(6), Ref(10)>>),
       Obj(<<Fld("trkpt", Ref(7))>>),
       Arr(<<Ref(8), Ref(9)>>),
       Obj(Pt(T2, T1)),
       Obj(<<Fld("ele", Num(30)), Fld("lat", Str(T3))>>),
       Obj(<<Fld("trkpt", Ref(11))>>),
       Obj(<<Fld("extensions", Ref(12)), Fld("lat", Str(T4)), Fld("lon", Str(T1))>>),
       Obj(<<Fld("near", Ref(13))>>),
       Obj(Pt(T4, T1)) >>

(***************************************************************************)
(* The texts of the track files.                                           *)
(***************************************************************************)

SrcPt(tag, lat, lon) == Elem(tag, <<Attr("lat", lat), Attr("lon", lon)>>, <<>>, <<>>)

SrcPtEle(lat, lon, ele) ==
    Elem("trkpt", <<Attr("lat", lat), Attr("lon", lon)>>,
         <<Elem("ele", <<>>, <<>>, ele)>>, <<>>)

SrcPtAlt(lat, lon, alt) ==
    Elem("trkpt", <<Attr("lat", lat), Attr("lon", lon), Attr("alt", alt)>>, <<>>, <<>>)

SrcTrk(name, segs) ==
    Elem("trk", <<>>, name \o [k \in 1..Len(segs) |-> Elem("trkseg", <<>>, segs[k], <<>>)], <<>>)

SrcTrkDoc(pts) ==
    << Elem("gpx", <<Attr("version", <<"1", ".", "1">>)>>,
            <<SrcTrk(<<Elem("name", <<>>, <<>>, <<"t">>)>>, <<pts>>)>>, <<>>) >>

SrcNone ==
    << Elem("gpx", <<>>,
            << Elem("wpt", <<Attr("lat", T1)>>, <<>>, <<>>),
               SrcPt("wpt", TBad, T2),
               SrcTrk(<<>>, << <<>> >>) >>, <<>>) >>

SrcOne ==
    << Elem("?xml", <<Attr("version", <<"1", ".", "0">>)>>, <<>>, <<>>),
       Elem("gpx", <<>>,
            <<SrcTrk(<<>>, << << Elem("trkpt",
                                      <<Attr("lat", TNeg), Attr("lon", T2), Attr("alt", <<"7">>)>>,
                                      <<Elem("ele", <<>>, <<>>, <<"5", "0">>)>>, <<>>) >> >>)>>,
            <<>>) >>

SrcTokens ==
    SrcTrkDoc(<< SrcPtEle(T48_0, T2, <<"5", "0", ".", "0">>), SrcPt("trkpt", T48_00, T2),
                 SrcPtAlt(T48_0, T2, <<"9">>) >>)

SrcFive ==
    SrcTrkDoc(<< SrcPt("trkpt", T1, T2), SrcPtEle(T2, T2, <<"2">>), SrcPt("trkpt", TBad, T2),
                 SrcPt("trkpt", T3, T2), SrcPtAlt(T4, T2, <<"4">>), SrcPt("trkpt", T5, T2) >>)

SrcNested ==
    << Elem("gpx", <<>>,
            << Elem("wpt", <<Attr("lat", T1), Attr("lon", T1), Attr("name", <<"w">>)>>,
                    <<>>, <<>>),
               SrcTrk(<<>>,
                      << << SrcPt("trkpt", T2, T1),
                            Elem("trkpt", <<Attr("lat", T3)>>,
                                 <<Elem("ele", <<>>, <<>>, <<"3">>)>>, <<>>) >>,
                         << Elem("trkpt", <<Attr("lat", T4), Attr("lon", T1)>>,
                                 <<Elem("extensions", <<>>,
                                        <<SrcPt("near", T4, T1)>>, <<>>)>>, <<>>) >> >>) >>,
            <<>>) >>

\* A waypoint, a track of one point, a second waypoint: the two <wpt> are
\* siblings of the same tag with the <trk> between them.
SrcInterleaved ==
    << Elem("gpx", <<>>,
            << SrcPt("wpt", T1, T1),
               SrcTrk(<<>>, << << SrcPt("trkpt", T2, T1) >> >>),
               SrcPt("wpt", T3, T1) >>, <<>>) >>

Sources == <<SrcNone, SrcOne, SrcTokens, SrcFive, SrcNested, SrcInterleaved>>

\* parser.parse of each text: the tree, and the text position of each node.
Parsed == [d \in DOMAIN Sources |-> Parse(Sources[d])]

DocInterleaved == Parsed[6].tree

Docs == <<DocNone, DocOne, DocTokens, DocFive, DocNested, DocInterleaved>>

(***************************************************************************)
(* Elevation service                                                       *)
(***************************************************************************)

\* One entry of data.results: null, an object without a finite elevation,
\* or an object with elevation v (hundredths of a metre).
NoResult == [t |-> "nores", v |-> 0]

NoElevation == [t |-> "noelev", v |-> 0]

Elevation(v) == [t |-> "elev", v |-> v]

Unasked == [t |-> "unasked", v |-> 0]

RawResults == {NoResult, NoElevation, Elevation(0), Elevation(-1235)}

\* What one request may come back with: a transport error, a non-ok HTTP
\* status, a body whose status is not "OK", or an OK body whose results are
\* an array of the requested length, one shorter, one longer, or no array.
NoResponse == [kind |-> "none", isArray |-> FALSE, results |-> <<>>]

FailedResponses ==
    {[kind |-> k, isArray |-> FALSE, results |-> <<>>] : k \in {"neterr", "http", "status"}}

OkResponses(n) ==
    {[kind |-> "ok", isArray |-> TRUE, results |-> rs] : rs \in [1..n -> RawResults]}

MismatchedResponses(n) ==
    {[kind |-> "ok", isArray |-> FALSE, results |-> <<>>]}
    \cup {[kind |-> "ok", isArray |-> TRUE, results |-> [j \in 1..m |-> Elevation(0)]] :
            m \in {n - 1, n + 1}}

\* Every body that passes the status checks of fetchElevations.
OkBodies(n) == OkResponses(n) \cup MismatchedResponses(n)

\* The request fetchElevations builds: the numeric coordinates and the key.
Request(locations, key) ==
    [locations |-> [j \in 1..Len(locations) |->
                      <<locations[j].latNum, locations[j].lonNum>>],
     key |-> key]

(***************************************************************************)
(* Fetch loop helpers                                                      *)
(***************************************************************************)

\* Variant of Slice: the end index is taken as inclusive.
SliceInclusive(arr, from, to) ==
    SubSeq(arr, from + 1, IF to + 1 < Len(arr) THEN to + 1 ELSE Len(arr))

\* arr.slice(from, to), 0-based and end-exclusive
Slice(arr, from, to) ==
    SubSeq(arr, from + 1, IF to < Len(arr) THEN to ELSE Len(arr))

\* Variant of CardinalityOk: the length is not compared.
CardinalityOkAnyLength(r, b) == r.isArray

\* Variant of CardinalityOk: a list longer than the batch passes.
CardinalityOkNotShorter(r, b) == r.isArray /\ Len(r.results) >= Len(b)

\* Array.isArray(results) && results.length === batch.length
CardinalityOk(r, b) == r.isArray /\ Len(r.results) = Len(b)

\* results[j], 1-based here; undefined (falsy, like null) beyond the end
At(results, j) == IF j \in DOMAIN results THEN results[j] ELSE NoResult

\* r && Number.isFinite(r.elevation) ? round : null
AltOf(r) == IF r.t = "elev" THEN Number(RoundTenth(r.v)) ELSE Null

\* Variant of PushAlts: alts[j] = altRounded, which overwrites the previous
\* batch's entries instead of appending.
PushAltsOverwrite(as, results, n) ==
    [j \in 1..(IF Len(as) > n THEN Len(as) ELSE n) |->
       IF j <= n THEN AltOf(At(results, j)) ELSE as[j]]

\* for (j ...) alts.push(altRounded)
PushAlts(as, results, n) == as \o [j \in 1..n |-> AltOf(At(results, j))]

\* Variant of MayRetry: one attempt fewer.
MayRetryOnce(a) == a < RETRIES - 1

\* Variant of MayRetry: one attempt more than RETRIES.
MayRetryInclusive(a) == a <= RETRIES

\* attempt < RETRIES: the fetcher sleeps and tries again
MayRetry(a) == a < RETRIES

\* Variant of MoreBatches: a batch that ends exactly at the last point is
\* taken to be followed by another.
MoreBatchesInclusive(from, pts) == from + BATCH_SIZE <= Len(pts)

\* i + BATCH_SIZE < trkpts.length: another batch follows
MoreBatches(from, pts) == from + BATCH_SIZE < Len(pts)

\* Variant of Backoff: the same wait after every failed attempt.
BackoffFlat(a) == BACKOFF_MS

\* The wait before the attempt after attempt a: sleep(250 * attempt)
Backoff(a) == BACKOFF_MS * a

\* Variant of NoTrackpoints: an empty collection is not noticed.
NoTrackpointsUnchecked(pts) == FALSE

\* trkpts.length === 0
NoTrackpoints(pts) == Len(pts) = 0

\* (keyArg && keyArg.split("=")[1]) || process.env.GOOGLE_MAPS_API_KEY, with
\* "" for an absent argument and for an unset variable
Credential(keyArg, envKey) == IF keyArg # "" THEN keyArg ELSE envKey

\* Variant of MissingKey: the credential is not checked.
MissingKeyUnchecked(key) == FALSE

\* !API_KEY, !process.env.GOOGLE_MAPS_API_KEY
MissingKey(key) == key = ""

\* fs.readFileSync(inputPath): the text of the input file
ReadFile(f) == Sources[f.doc]

\* parser.parse(xml) of the text of the input file (Parsed tabulates Parse
\* over the texts).
ParseFile(f) == Parsed[f.doc].tree

\* collectTrkptRefs(root, trkpts) on each parsed text, tabulated.
Collection == [d \in DOMAIN Sources |-> collectTrkptRefs(Parsed[d].tree, Ref(1), <<>>)]

\* const trkpts = []; collectTrkptRefs(root, trkpts)
CollectFile(f) == Collection[f.doc]

(***************************************************************************)
(* Injection                                                               *)
(***************************************************************************)

\* String(x) of a decimal m / 10^e
DecimalToString(d) ==
    LET a      == IF d.m < 0 THEN -d.m ELSE d.m
        ds     == NatToString(a)
        pad    == IF Len(ds) > d.e THEN 0 ELSE d.e + 1 - Len(ds)
        padded == [k \in 1..pad |-> "0"] \o ds
        cut    == Len(padded) - d.e
    IN  (IF d.m < 0 THEN <<"-">> ELSE <<>>)
        \o SubSeq(padded, 1, cut)
        \o (IF d.e > 0 THEN <<".">> \o SubSeq(padded, cut + 1, Len(padded)) ELSE <<>>)

\* Variant of AltKey: the key is built from the parsed numbers.
AltKeyNumeric(p) == DecimalToString(p.latNum) \o <<"|">> \o DecimalToString(p.lonNum)

\* Variant of AltKey: the key also names the node, so no two points share it.
AltKeyPerNode(p) == p.latStr \o <<"|">> \o p.lonStr \o <<"#">> \o NatToString(p.ref)

\* `${latStr}|${lonStr}`
AltKey(p) == p.latStr \o <<"|">> \o p.lonStr

\* Map.prototype.set and get; a Map is a function from its keys.
MapSet(m, key, val) ==
    [k \in (DOMAIN m) \cup {key} |-> IF k = key THEN val ELSE m[k]]

MapGet(m, key) == IF key \in DOMAIN m THEN m[key] ELSE Undefined

EmptyMap == [k \in {} |-> Null]

\* for (i ...) mapAlt.set(key(trkpts[i]), alts[i])
RECURSIVE BuildMapAlt(_, _, _, _)
BuildMapAlt(pts, as, k, m) ==
    IF k > Len(pts) THEN m
    ELSE BuildMapAlt(pts, as, k + 1,
                     MapSet(m, AltKey(pts[k]), IF k <= Len(as) THEN as[k] ELSE Undefined))

\* Variant of SetProperty: the property is always added, never overwritten.
SetPropertyAppend(node, name, val) ==
    [node EXCEPT !.fields = Append(node.fields, Fld(name, val))]

\* node[name] = val: overwrite in place, or add the property at the end
SetProperty(node, name, val) ==
    IF HasOwnProperty(node, name)
    THEN [node EXCEPT !.fields =
            [k \in 1..Len(node.fields) |->
               IF node.fields[k].name = name THEN Fld(name, val) ELSE node.fields[k]]]
    ELSE [node EXCEPT !.fields = Append(node.fields, Fld(name, val))]

\* Variant of InjectedName: <ele> is written in either mode.
InjectedNameEle(mode) == "ele"

\* The property written and its value, per mode: alt = String(alt) in "attr"
\* mode, ele = alt (a number) otherwise.
InjectedName(mode) == IF mode = "attr" THEN "alt" ELSE "ele"

InjectedValue(mode, alt) == IF mode = "attr" THEN Str(TenthsToString(alt.v)) ELSE Num(alt.v)

\* Variant of InjectOne: the counter is advanced before the null test.
InjectOneCountFirst(p, k, mapAlt, mode, st) ==
    LET alt == MapGet(mapAlt, AltKey(p))
    IN  IF LooseNull(alt) THEN [st EXCEPT !.updated = @ + 1]
        ELSE [root    |-> [st.root EXCEPT ![p.ref] =
                             SetProperty(@, InjectedName(mode), InjectedValue(mode, alt))],
              updated |-> st.updated + 1,
              wrote   |-> st.wrote \cup {k}]

\* One turn of the injection loop for point k; st = [root, updated, wrote],
\* where wrote records the indexes of the points whose node was assigned.
InjectOne(p, k, mapAlt, mode, st) ==
    LET alt == MapGet(mapAlt, AltKey(p))
    IN  IF LooseNull(alt) THEN st
        ELSE [root    |-> [st.root EXCEPT ![p.ref] =
                             SetProperty(@, InjectedName(mode), InjectedValue(mode, alt))],
              updated |-> st.updated + 1,
              wrote   |-> st.wrote \cup {k}]

RECURSIVE InjectFrom(_, _, _, _, _)
InjectFrom(pts, k, mapAlt, mode, st) ==
    IF k > Len(pts) THEN st
    ELSE InjectFrom(pts, k + 1, mapAlt, mode, InjectOne(pts[k], k, mapAlt, mode, st))

Inject(tree, pts, mapAlt, mode) ==
    InjectFrom(pts, 1, mapAlt, mode, [root |-> tree, updated |-> 0, wrote |-> {}])

\* trkpts.map((p, idx) => ({lat, lon, alt: alts[idx]}))
Enriched(pts, as) ==
    [k \in 1..Len(pts) |->
       [lat |-> pts[k].latNum, lon |-> pts[k].lonNum,
        alt |-> IF k <= Len(as) THEN as[k] ELSE Undefined]]

\* Variant of WriteJson: the write stands inside the fetch loop.
WriteJsonInLoop(loopDone, noJson, pts, as, file) ==
    IF ~noJson THEN <<Enriched(pts, as)>> ELSE file

\* if (!NO_JSON) fs.writeFileSync(outputJsonPath, ...): the statement stands
\* after the fetch loop, so the file is written only once the loop is over.
WriteJson(loopDone, noJson, pts, as, file) ==
    IF loopDone /\ ~noJson THEN <<Enriched(pts, as)>> ELSE file

\* builder.build(root) with the prolog added when the tree has none: the
\* text is the tree it renders and where its declaration line comes from.
HasProlog(tree) == HasOwnProperty(tree[1], "?xml")

GpxOut(tree) ==
    [prolog |-> IF HasProlog(tree) THEN "document" ELSE "prepended", tree |-> tree]

(***************************************************************************)
(* State                                                                   *)
(***************************************************************************)

VARIABLES
    pc,           \* "idle" (no process yet), "start", "fetching", "backoff", "pause",
                  \* "done" (exit 0), "failed" (exit 1)
    err,          \* why the run failed, "" otherwise
    API_KEY,      \* the credential, "" when neither --key nor the environment gives one
    INJECT_MODE,  \* "ele" or "attr"
    NO_JSON,      \* --no-json
    input,        \* the input file: which document, whether it reads, whether it parses
    xml,          \* the text read from the input file: <<>> or <<the text>>
    root,         \* the parsed tree (<<>> before parsing)
    trkpts,       \* the collected references
    i,            \* index of the batch's first point
    batch,        \* the batch being fetched
    attempt,      \* attempt counter of fetchElevations (0 outside the fetch loop)
    inflight,     \* the requests awaiting a response
    resp,         \* the response handled last
    alts,         \* the altitude sequence
    served,       \* node id -> the result the service gave in the accepted response
    batches,      \* the batches formed so far: <<first index, length>>
    delay,        \* the timer the run is sleeping on, in ms (0 when not sleeping)
    metered,      \* whether the run's lookup requests are counted
    sent,         \* the number of lookup requests issued, in a metered run
    pauses,       \* the number of pauses between batches taken
    updated,      \* the update counter
    wrote,        \* indexes of the points whose node the injector assigned
    jsonFile,     \* the structured output file: <<>> or <<its content>>
    gpxFile,      \* the rewritten track file: <<>> or <<its content>>
    request,      \* the POST /gpx-to-alt request being handled, NoRequest for a
                  \* run from the command line
    srvPc,        \* the handler: "none", "received", "running", "reading",
                  \* "cleanup", "closed"
    replies,      \* the responses sent for the request
    spawned,      \* the number of pipeline processes the handler started
    tmpIn         \* whether the uploaded temporary file exists

vars == <<pc, err, API_KEY, INJECT_MODE, NO_JSON, input, xml, root, trkpts, i, batch, attempt,
          inflight, resp, alts, served, batches, delay, sent, pauses, updated, wrote,
          jsonFile, gpxFile, request, srvPc, replies, spawned, tmpIn, metered>>

config == <<API_KEY, INJECT_MODE, NO_JSON, input, metered>>

fetchVars == <<i, batch, attempt, inflight, resp, alts, served, batches, delay, sent, pauses>>

srvVars == <<request, srvPc, replies, spawned, tmpIn>>

outVars == <<updated, wrote, jsonFile, gpxFile>>

\* The variables of the pipeline process.
runVars == <<pc, err, config, xml, root, trkpts, fetchVars, outVars>>

\* A run from the command line has no request.
NoRequest == [file |-> FALSE, mode |-> ""]

\* const mode = req.body.mode === "attr" ? "attr" : "ele"
ModeOf(body) == IF body = "attr" THEN "attr" ELSE "ele"

\* The files the model uploads to the server: those of at most MaxUpload
\* points.
UploadDocs ==
    {d \in DOMAIN Docs : Len(collectTrkptRefs(Docs[d], Ref(1), <<>>)) <= MaxUpload}

\* Nothing has run yet.
InitRun ==
    /\ err = ""
    /\ xml = <<>>
    /\ root = <<>>
    /\ trkpts = <<>>
    /\ i = 0
    /\ batch = <<>>
    /\ attempt = 0
    /\ inflight = <<>>
    /\ resp = NoResponse
    /\ alts = <<>>
    /\ served = <<>>
    /\ batches = <<>>
    /\ delay = 0
    /\ sent = 0
    /\ pauses = 0
    /\ updated = 0
    /\ wrote = {}
    /\ jsonFile = <<>>
    /\ gpxFile = <<>>
    /\ replies = <<>>
    /\ spawned = 0

\* node gpx-to-alt.cjs <input> ... : the script is running, with whatever
\* options and credential the command line and the environment give it.
InitCli ==
    /\ pc = "start"
    /\ API_KEY \in {Credential(k, e) : k \in {"", "k"}, e \in {"", "k"}}
    /\ INJECT_MODE \in {"ele", "attr"}
    /\ NO_JSON \in BOOLEAN
    /\ input \in [doc : DOMAIN Docs, readOk : BOOLEAN, parseOk : BOOLEAN]
    /\ request = NoRequest
    /\ srvPc = "none"
    /\ tmpIn = FALSE

\* POST /gpx-to-alt has arrived and multer has stored the upload, if any.
\* The options are those of the command line the handler builds, the
\* credential is the one of the server's environment.
InitServer ==
    /\ pc = "idle"
    /\ request \in [file : BOOLEAN, mode : {"attr", "ele", "other"}]
    /\ API_KEY \in {Credential("", e) : e \in {"", "k"}}
    /\ INJECT_MODE = ModeOf(request.mode)
    /\ NO_JSON = TRUE
    /\ input \in [doc : UploadDocs, readOk : BOOLEAN, parseOk : BOOLEAN]
    /\ ~request.file => input = [doc |-> 1, readOk |-> FALSE, parseOk |-> FALSE]
    /\ srvPc = "received"
    /\ tmpIn = request.file

\* The files of the metered runs: all but the longest.
MeteredDocs == {d \in DOMAIN Docs : Docs[d] # DocFive}

\* One more request issued.
Count(n) == IF metered THEN n + 1 ELSE n

Init == InitRun /\ (InitCli \/ InitServer) /\ metered = FALSE

InitMetered ==
    InitRun /\ (InitCli \/ InitServer) /\ metered = TRUE /\ input.doc \in MeteredDocs

\* process.exit(1) after console.error
Fail(kind) == pc' = "failed" /\ err' = kind

(***************************************************************************)
(* Start-up: the synchronous top level of the script, up to the first      *)
(* request of run()                                                        *)
(***************************************************************************)

StartMissingKey ==
    /\ pc = "start"
    /\ MissingKey(API_KEY)
    /\ Fail("MissingCredential")
    /\ UNCHANGED <<config, xml, root, trkpts, fetchVars, outVars, srvVars>>

StartReadError ==
    /\ pc = "start"
    /\ ~MissingKey(API_KEY)
    /\ ~input.readOk
    /\ Fail("ReadError")
    /\ UNCHANGED <<config, xml, root, trkpts, fetchVars, outVars, srvVars>>

StartParseError ==
    /\ pc = "start"
    /\ ~MissingKey(API_KEY)
    /\ input.readOk
    /\ ~input.parseOk
    /\ xml' = <<ReadFile(input)>>
    /\ Fail("ParseError")
    /\ UNCHANGED <<config, root, trkpts, fetchVars, outVars, srvVars>>

StartNoTrackpoints ==
    /\ pc = "start"
    /\ ~MissingKey(API_KEY)
    /\ input.readOk
    /\ input.parseOk
    /\ LET tree == ParseFile(input)
           pts  == CollectFile(input)
       IN  /\ NoTrackpoints(pts)
           /\ xml' = <<ReadFile(input)>>
           /\ root' = tree
           /\ trkpts' = pts
    /\ Fail("NoTrackpoints")
    /\ UNCHANGED <<config, fetchVars, outVars, srvVars>>

StartRun ==
    /\ pc = "start"
    /\ ~MissingKey(API_KEY)
    /\ input.readOk
    /\ input.parseOk
    /\ LET tree == ParseFile(input)
           pts  == CollectFile(input)
           b    == Slice(pts, 0, 0 + BATCH_SIZE)
       IN  /\ ~NoTrackpoints(pts)
           /\ xml' = <<ReadFile(input)>>
           /\ root' = tree
           /\ trkpts' = pts
           /\ alts' = <<>>
           /\ served' = [id \in {pts[k].ref : k \in 1..Len(pts)} |-> Unasked]
           /\ i' = 0
           /\ batch' = b
           /\ batches' = <<<<0, Len(b)>>>>
           /\ attempt' = 1
           /\ inflight' = <<Request(b, API_KEY)>>
           /\ sent' = Count(sent)
    /\ pc' = "fetching"
    /\ UNCHANGED <<err, config, resp, delay, pauses, outVars, srvVars>>

(***************************************************************************)
(* fetchElevations: one response to the request in flight                  *)
(***************************************************************************)

\* A failed attempt that is not the last: sleep 250 * attempt.
ResponseRetry ==
    /\ pc = "fetching"
    /\ MayRetry(attempt)
    /\ \E r \in FailedResponses : resp' = r
    /\ inflight' = <<>>
    /\ delay' = Backoff(attempt)
    /\ pc' = "backoff"
    /\ UNCHANGED <<err, config, xml, root, trkpts, i, batch, attempt, alts, served, batches,
                   sent, pauses, outVars, srvVars>>

\* The backoff is over: the next attempt's request.
BackoffDone ==
    /\ pc = "backoff"
    /\ attempt' = attempt + 1
    /\ inflight' = <<Request(batch, API_KEY)>>
    /\ sent' = Count(sent)
    /\ delay' = 0
    /\ pc' = "fetching"
    /\ UNCHANGED <<err, config, xml, root, trkpts, i, batch, resp, alts, served, batches,
                   pauses, outVars, srvVars>>

\* The last attempt failed: throw lastErr, which run() does not catch.
ResponseExhausted ==
    /\ pc = "fetching"
    /\ ~MayRetry(attempt)
    /\ \E r \in FailedResponses : resp' = r
    /\ inflight' = <<>>
    /\ Fail("LookupFailure")
    /\ UNCHANGED <<config, xml, root, trkpts, i, batch, attempt, alts, served, batches, delay,
                   sent, pauses, outVars, srvVars>>

\* An OK body whose results are not an array of the batch's length.
ResponseMismatch ==
    /\ pc = "fetching"
    /\ \E r \in OkBodies(Len(batch)) :
         /\ ~CardinalityOk(r, batch)
         /\ resp' = r
    /\ inflight' = <<>>
    /\ Fail("ResultCardinalityMismatch")
    /\ UNCHANGED <<config, xml, root, trkpts, i, batch, attempt, alts, served, batches, delay,
                   sent, pauses, outVars, srvVars>>

\* What an accepted response leaves in served: the result at the position
\* of each point of the batch in the request.
Serve(sv, b, results) ==
    [id \in DOMAIN sv |->
       IF \E j \in 1..Len(b) : b[j].ref = id
       THEN At(results, CHOOSE j \in 1..Len(b) : b[j].ref = id)
       ELSE sv[id]]

\* An accepted response, another batch follows: push and sleep SLEEP_MS.
ResponseBatch ==
    /\ pc = "fetching"
    /\ MoreBatches(i, trkpts)
    /\ \E r \in OkBodies(Len(batch)) :
         /\ CardinalityOk(r, batch)
         /\ resp' = r
         /\ alts' = PushAlts(alts, r.results, Len(batch))
         /\ served' = Serve(served, batch, r.results)
    /\ jsonFile' = WriteJson(FALSE, NO_JSON, trkpts, alts', jsonFile)
    /\ inflight' = <<>>
    /\ delay' = SLEEP_MS
    /\ pauses' = pauses + 1
    /\ pc' = "pause"
    /\ UNCHANGED <<err, config, xml, root, trkpts, i, batch, attempt, batches, sent, updated,
                   wrote, gpxFile, srvVars>>

\* The pause is over: the next batch's first request.
PauseDone ==
    /\ pc = "pause"
    /\ LET b == Slice(trkpts, i + BATCH_SIZE, i + BATCH_SIZE + BATCH_SIZE)
       IN  /\ i' = i + BATCH_SIZE
           /\ batch' = b
           /\ batches' = Append(batches, <<i + BATCH_SIZE, Len(b)>>)
           /\ inflight' = <<Request(b, API_KEY)>>
    /\ attempt' = 1
    /\ sent' = Count(sent)
    /\ delay' = 0
    /\ pc' = "fetching"
    /\ UNCHANGED <<err, config, xml, root, trkpts, resp, alts, served, pauses, outVars, srvVars>>

(***************************************************************************)
(* The last batch's accepted response: the rest of run() is synchronous    *)
(***************************************************************************)

LastResponse(r) ==
    /\ pc = "fetching"
    /\ ~MoreBatches(i, trkpts)
    /\ r \in OkBodies(Len(batch))
    /\ CardinalityOk(r, batch)
    /\ resp' = r
    /\ alts' = PushAlts(alts, r.results, Len(batch))
    /\ served' = Serve(served, batch, r.results)
    /\ inflight' = <<>>
    /\ i' = i + BATCH_SIZE
    /\ attempt' = 0
    /\ UNCHANGED <<config, xml, trkpts, batch, batches, delay, sent, pauses, srvVars>>

\* Both writes succeed.
Finish ==
    \E r \in OkBodies(Len(batch)) :
      /\ LastResponse(r)
      /\ LET inj == Inject(root, trkpts, BuildMapAlt(trkpts, alts', 1, EmptyMap), INJECT_MODE)
         IN  /\ jsonFile' = WriteJson(TRUE, NO_JSON, trkpts, alts', jsonFile)
             /\ root' = inj.root
             /\ updated' = inj.updated
             /\ wrote' = inj.wrote
             /\ gpxFile' = <<GpxOut(inj.root)>>
      /\ pc' = "done"
      /\ err' = ""

\* writeFileSync of the structured output throws.
FinishJsonWriteError ==
    \E r \in OkBodies(Len(batch)) :
      /\ LastResponse(r)
      /\ ~NO_JSON
      /\ Fail("WriteError")
      /\ UNCHANGED <<root, outVars>>

\* writeFileSync of the rewritten track file throws, after the injection.
FinishGpxWriteError ==
    \E r \in OkBodies(Len(batch)) :
      /\ LastResponse(r)
      /\ LET inj == Inject(root, trkpts, BuildMapAlt(trkpts, alts', 1, EmptyMap), INJECT_MODE)
         IN  /\ jsonFile' = WriteJson(TRUE, NO_JSON, trkpts, alts', jsonFile)
             /\ root' = inj.root
             /\ updated' = inj.updated
             /\ wrote' = inj.wrote
             /\ gpxFile' = <<>>
      /\ Fail("WriteError")

(***************************************************************************)
(* The server: the handler of POST /gpx-to-alt (src/api/server.js).  The   *)
(* pipeline is a child process; the handler waits for its exit.            *)
(***************************************************************************)

\* A response: a status with a message, or status 200 with the rewritten
\* track file as its body.
Reply(status, text) == [status |-> status, text |-> text, body |-> <<>>]

FileReply(gpx) == [status |-> 200, text |-> "", body |-> <<gpx>>]

\* Variant of Send: the response goes out twice.
SendTwice(rs, r) == Append(Append(rs, r), r)

\* res.status(..).send(..) / res.send(..)
Send(rs, r) == Append(rs, r)

\* if (!req.file) return res.status(400).send("No file")
HandleNoFile ==
    /\ srvPc = "received"
    /\ ~request.file
    /\ replies' = Send(replies, Reply(400, "No file"))
    /\ srvPc' = "closed"
    /\ UNCHANGED <<runVars, request, spawned, tmpIn>>

\* if (!process.env.GOOGLE_MAPS_API_KEY) return res.status(500).send(..)
HandleMissingKey ==
    /\ srvPc = "received"
    /\ request.file
    /\ MissingKey(API_KEY)
    /\ replies' = Send(replies, Reply(500, "Server missing GOOGLE_MAPS_API_KEY"))
    /\ srvPc' = "closed"
    /\ UNCHANGED <<runVars, request, spawned, tmpIn>>

\* runNodeScript(args): execFile starts the pipeline and the handler waits.
HandleSpawn ==
    /\ srvPc = "received"
    /\ request.file
    /\ ~MissingKey(API_KEY)
    /\ spawned' = spawned + 1
    /\ pc' = "start"
    /\ srvPc' = "running"
    /\ UNCHANGED <<err, config, xml, root, trkpts, fetchVars, outVars, request, replies, tmpIn>>

\* The child exited with an error: the promise rejects, the catch answers.
ChildFailed ==
    /\ srvPc = "running"
    /\ pc = "failed"
    /\ replies' = Send(replies, Reply(500, "Processing error"))
    /\ srvPc' = "closed"
    /\ UNCHANGED <<runVars, request, spawned, tmpIn>>

\* The child exited with status 0: headers are set, readFile is awaited.
ChildExited ==
    /\ srvPc = "running"
    /\ pc = "done"
    /\ srvPc' = "reading"
    /\ UNCHANGED <<runVars, request, replies, spawned, tmpIn>>

\* readFile(outputPath) resolves: res.send(gpx), then the unlinks are awaited.
ReadOutput ==
    /\ srvPc = "reading"
    /\ gpxFile # <<>>
    /\ replies' = Send(replies, FileReply(gpxFile[1]))
    /\ srvPc' = "cleanup"
    /\ UNCHANGED <<runVars, request, spawned, tmpIn>>

\* readFile(outputPath) rejects: the catch answers.
ReadOutputError ==
    /\ srvPc = "reading"
    /\ replies' = Send(replies, Reply(500, "Processing error"))
    /\ srvPc' = "closed"
    /\ UNCHANGED <<runVars, request, spawned, tmpIn>>

\* Promise.allSettled([unlink(outputPath), unlink(inputPath)]) settles.
Cleanup ==
    /\ srvPc = "cleanup"
    /\ gpxFile' = <<>>
    /\ tmpIn' = FALSE
    /\ srvPc' = "closed"
    /\ UNCHANGED <<pc, err, config, xml, root, trkpts, fetchVars, updated, wrote, jsonFile,
                   request, replies, spawned>>

Next ==
    \/ StartMissingKey
    \/ StartReadError
    \/ StartParseError
    \/ StartNoTrackpoints
    \/ StartRun
    \/ ResponseRetry
    \/ BackoffDone
    \/ ResponseExhausted
    \/ ResponseMismatch
    \/ ResponseBatch
    \/ PauseDone
    \/ Finish
    \/ FinishJsonWriteError
    \/ FinishGpxWriteError
    \/ HandleNoFile
    \/ HandleMissingKey
    \/ HandleSpawn
    \/ ChildFailed
    \/ ChildExited
    \/ ReadOutput
    \/ ReadOutputError
    \/ Cleanup

Spec == Init /\ [][Next]_vars

\* The metered runs, in which every request in flight is answered (with a
\* response or a failure), every timer fires and the synchronous code runs
\* on: a step that can be taken is taken.
SpecMetered == InitMetered /\ [][Next]_vars /\ WF_vars(Next)

(***************************************************************************)
(* Properties                                                              *)
(***************************************************************************)

\* The run has left the fetch loop.
LoopComplete == pc = "done" \/ (pc = "failed" /\ err = "WriteError")

\* No step leaves a failed run: nothing is requested, injected or written
\* after the failure is reported.
FailedIsFinal == pc = "failed" => UNCHANGED runVars

\* The result of the service rounded to the nearest tenth (ties upwards), or
\* null when it carries no finite elevation.
NearestTenth(v) == CHOOSE t \in -200..200 : 10 * t - 5 <= v /\ v < 10 * t + 5

ExpectedAlt(raw) == IF raw.t = "elev" THEN Number(NearestTenth(raw.v)) ELSE Null

\* C1: once the fetch loop is complete the altitude sequence is as long as
\* the point sequence, and at every moment entry k of the altitude sequence
\* is the rounded (or null) result the service returned for point k.
C1_AltsFollowPoints ==
    /\ LoopComplete => Len(alts) = Len(trkpts)
    /\ Len(alts) <= Len(trkpts)
    /\ \A k \in 1..Len(alts) : alts[k] = ExpectedAlt(served[trkpts[k].ref])

\* A completed run over three batches with a null and a non-null altitude in
\* different batches.
C1_Witness ==
    /\ pc = "done"
    /\ Len(batches) >= 3
    /\ alts[1] = Null
    /\ alts[Len(alts)] = Number(-123)

\* The fatal conditions the specification names.
FatalKinds ==
    {"ParseError", "MissingCredential", "NoTrackpoints", "LookupFailure",
     "ResultCardinalityMismatch"}

\* C2: a run that ends in one of the named fatal conditions has written
\* neither the structured point list nor the rewritten track file.
C2_NoOutputOnFatal ==
    (pc = "failed" /\ err \in FatalKinds) => (jsonFile = <<>> /\ gpxFile = <<>>)

\* A batch exhausts its retries after an earlier batch succeeded, in a run
\* that was to write the structured point list.
C2_Witness ==
    /\ pc = "failed"
    /\ err = "LookupFailure"
    /\ Len(alts) > 0
    /\ ~NO_JSON

\* One step of the retry policy, as C3 states it.
C3_RetryStep ==
    /\ (pc = "fetching" /\ attempt \in {1, 2} /\ resp'.kind \notin {"ok", "none"}) =>
         /\ pc' = "backoff"
         /\ UNCHANGED <<batch, batches, alts, attempt>>
    /\ pc = "backoff" =>
         /\ pc' = "fetching"
         /\ attempt' = attempt + 1
         /\ Len(inflight') = 1
         /\ UNCHANGED <<batch, batches, alts>>
    /\ (pc = "fetching" /\ attempt = 3 /\ resp'.kind = "ok"
          /\ resp'.isArray /\ Len(resp'.results) = Len(batch)) =>
         /\ alts' = alts \o [j \in 1..Len(batch) |-> ExpectedAlt(resp'.results[j])]
         /\ pc' \in {"pause", "done"} \/ (pc' = "failed" /\ err' = "WriteError")
    /\ (pc = "fetching" /\ attempt = 3 /\ resp'.kind \notin {"ok", "none"}) =>
         /\ pc' = "failed"
         /\ err' = "LookupFailure"
         /\ inflight' = <<>>
         /\ UNCHANGED <<root, alts, batches, updated, wrote, jsonFile, gpxFile>>
    /\ FailedIsFinal

\* C3: a failed attempt 1 or 2 is followed by another attempt for the same
\* batch; an accepted response to attempt 3 is pushed and the run goes on; a
\* failed attempt 3 aborts the run, with nothing injected or written, and no
\* step follows the abort.
C3_RetryThenSucceedOrAbort == [][C3_RetryStep]_vars

\* The third attempt of a batch succeeded and the run goes on to the next
\* batch.
C3_Witness == pc = "pause" /\ attempt = 3 /\ resp.kind = "ok"

\* ceil(n / b)
CeilDiv(n, b) == CHOOSE c \in 0..n : c * b >= n /\ (c - 1) * b < n

\* C4: batch n (from 0) starts at n*B and ends before min((n+1)*B, N); when
\* the loop is complete there are ceil(N/B) batches, each but the last of B
\* points, and every point is in exactly one of them.
C4_BatchPartition ==
    LET N == Len(trkpts)
        B == BATCH_SIZE
    IN  /\ \A n \in 1..Len(batches) :
             /\ batches[n][1] = (n - 1) * B
             /\ batches[n][1] + batches[n][2] = (IF n * B < N THEN n * B ELSE N)
        /\ LoopComplete =>
             /\ Len(batches) = CeilDiv(N, B)
             /\ \A n \in 1..(Len(batches) - 1) : batches[n][2] = B
             /\ \A k \in 0..(N - 1) :
                  Cardinality({n \in 1..Len(batches) :
                                 batches[n][1] <= k /\ k < batches[n][1] + batches[n][2]}) = 1

\* A completed run whose last batch is shorter than the batches before it.
C4_Witness ==
    /\ pc = "done"
    /\ Len(batches) >= 2
    /\ batches[Len(batches)][2] < BATCH_SIZE

\* One step on a body of the wrong cardinality, as C5 states it.
C5_MismatchStep ==
    /\ (pc = "fetching" /\ resp'.kind = "ok"
          /\ ~(resp'.isArray /\ Len(resp'.results) = Len(batch))) =>
         /\ pc' = "failed"
         /\ err' = "ResultCardinalityMismatch"
         /\ inflight' = <<>>
         /\ UNCHANGED <<root, alts, attempt, batches, updated, wrote, jsonFile, gpxFile>>
    /\ FailedIsFinal

\* C5: an OK body whose results are not an array of the batch's length
\* aborts the run in that step: no further attempt, no further batch,
\* nothing pushed, injected or written, and no step follows.
C5_MismatchAborts == [][C5_MismatchStep]_vars

\* The first attempt of a later batch came back with a list of the wrong
\* length: the run failed with retries left.
C5_Witness ==
    /\ pc = "failed"
    /\ err = "ResultCardinalityMismatch"
    /\ attempt = 1
    /\ Len(batches) >= 2
    /\ resp.isArray

\* The injection loop has run.
Injected ==
    \/ pc = "done"
    \/ pc = "failed" /\ err = "WriteError" /\ (NO_JSON \/ jsonFile # <<>>)

\* The tree as parsed, before any injection.
Original == Docs[input.doc]

\* The property the run's mode writes.
TargetField == IF INJECT_MODE = "attr" THEN "alt" ELSE "ele"

\* The value of a property of a node, <<>> when the node has none.
FieldOf(tree, id, name) ==
    IF HasOwnProperty(tree[id], name) THEN <<GetField(tree[id], name)>> ELSE <<>>

SameTokens(p, q) == p.latStr = q.latStr /\ p.lonStr = q.lonStr

SameNumbers(p, q) == p.latNum = q.latNum /\ p.lonNum = q.lonNum

UniqueTokens(k) ==
    \A l \in 1..Len(trkpts) : SameTokens(trkpts[k], trkpts[l]) => l = k

\* The last collected point with the tokens of point k.
LastSame(k) ==
    CHOOSE l \in 1..Len(trkpts) :
      /\ SameTokens(trkpts[k], trkpts[l])
      /\ \A m \in 1..Len(trkpts) : SameTokens(trkpts[k], trkpts[m]) => m <= l

\* The node of point k carries altitude a (in tenths) in the run's mode: the
\* number itself in <ele>, a string that reads back as it in alt="".
Carries(tree, k, a) ==
    LET f == FieldOf(tree, trkpts[k].ref, TargetField)
    IN  /\ f # <<>>
        /\ IF INJECT_MODE = "attr"
           THEN f[1].vk = "str" /\ StringToNumber(f[1].tok) = Normalise(a, 1)
           ELSE f[1] = Num(a)

\* The node of point k is as it was parsed.
Untouched(tree, k) == tree[trkpts[k].ref] = Original[trkpts[k].ref]

\* The step that accepts a response holding a result without a finite
\* elevation: no retry, no abort, null pushed at that result's index.
C6_NullStep ==
    (pc = "fetching" /\ resp'.kind = "ok" /\ resp'.isArray
       /\ Len(resp'.results) = Len(batch)
       /\ \E j \in 1..Len(batch) : resp'.results[j].t # "elev") =>
      /\ pc' \in {"pause", "done"} \/ (pc' = "failed" /\ err' = "WriteError")
      /\ Len(alts') = Len(alts) + Len(batch)
      /\ \A j \in 1..Len(batch) :
           resp'.results[j].t # "elev" => alts'[Len(alts) + j] = Null

\* Null in the altitude sequence, and what injection does with it.
C6_NullState ==
    /\ \A k \in 1..Len(alts) : served[trkpts[k].ref].t # "elev" => alts[k] = Null
    /\ Injected =>
         \A k \in 1..Len(trkpts) :
           (alts[k] = Null /\ UniqueTokens(k)) =>
             /\ k \notin wrote
             /\ Untouched(root, k)
             /\ updated <= Len(trkpts) - 1

\* C6: a result without a finite elevation is accepted like any other (no
\* retry, no abort) and gives null at its point's index; after injection a
\* point with null altitude and tokens no other point has is not counted and
\* its node is as it was.
C6_NullPropagation == []C6_NullState /\ [][C6_NullStep]_vars

\* A completed run in which a point with tokens of its own got no elevation,
\* its node already carried the mode's field, and other nodes were updated.
C6_Witness ==
    /\ pc = "done"
    /\ updated > 0
    /\ \E k \in 1..Len(trkpts) :
         /\ alts[k] = Null
         /\ UniqueTokens(k)
         /\ served[trkpts[k].ref] = NoElevation
         /\ FieldOf(Original, trkpts[k].ref, TargetField) # <<>>

\* C7 as stated: two points with equal numbers and different tokens have
\* different keys, and after injection each node carries the altitude
\* fetched for its own index.
C7_OwnIndexAltitude ==
    Injected =>
      \A k, l \in 1..Len(trkpts) :
        (SameNumbers(trkpts[k], trkpts[l]) /\ ~SameTokens(trkpts[k], trkpts[l])) =>
          /\ AltKey(trkpts[k]) # AltKey(trkpts[l])
          /\ alts[k] # Null => Carries(root, k, alts[k].v)

\* C7, amended: two points with equal numbers and different tokens have
\* different keys, and after injection each node carries the altitude
\* fetched for the last point with exactly its own tokens (its own index when
\* no other point has its tokens), or is as it was when that altitude is null.
C7_OwnKeyAltitude ==
    Injected =>
      \A k, l \in 1..Len(trkpts) :
        (SameNumbers(trkpts[k], trkpts[l]) /\ ~SameTokens(trkpts[k], trkpts[l])) =>
          /\ AltKey(trkpts[k]) # AltKey(trkpts[l])
          /\ LET a == alts[LastSame(k)]
             IN  IF a = Null THEN Untouched(root, k) ELSE Carries(root, k, a.v)
          /\ UniqueTokens(k) => LastSame(k) = k

\* "48.0" and "48.00" were fetched different altitudes and each node carries
\* its own.
C7_Witness ==
    /\ pc = "done"
    /\ \E k, l \in 1..Len(trkpts) :
         /\ SameNumbers(trkpts[k], trkpts[l])
         /\ ~SameTokens(trkpts[k], trkpts[l])
         /\ UniqueTokens(l)
         /\ alts[l] # Null
         /\ alts[LastSame(k)] # Null
         /\ alts[LastSame(k)] # alts[l]
         /\ Carries(root, l, alts[l].v)
         /\ Carries(root, k, alts[LastSame(k)].v)

\* C8 as stated: after injection two points with identical tokens carry the
\* same altitude value in the tree.
C8_SameTokensSameValue ==
    Injected =>
      \A k, l \in 1..Len(trkpts) :
        SameTokens(trkpts[k], trkpts[l]) =>
          FieldOf(root, trkpts[k].ref, TargetField) = FieldOf(root, trkpts[l].ref, TargetField)

\* C8, amended: after injection two points with identical tokens both carry
\* the altitude fetched for the last point with those tokens when that
\* altitude is not null, whatever was fetched for each of them; when it is
\* null both nodes are as they were.
C8_SameTokensSameLookup ==
    Injected =>
      \A k, l \in 1..Len(trkpts) :
        SameTokens(trkpts[k], trkpts[l]) =>
          LET a == alts[LastSame(k)]
          IN  IF a = Null
              THEN Untouched(root, k) /\ Untouched(root, l)
              ELSE /\ Carries(root, k, a.v)
                   /\ Carries(root, l, a.v)
                   /\ FieldOf(root, trkpts[k].ref, TargetField)
                        = FieldOf(root, trkpts[l].ref, TargetField)

\* Two points with identical tokens were fetched different altitudes and
\* carry the same one.
C8_Witness ==
    /\ pc = "done"
    /\ \E k, l \in 1..Len(trkpts) :
         /\ k < l
         /\ SameTokens(trkpts[k], trkpts[l])
         /\ alts[k] # alts[l]
         /\ alts[l] # Null
         /\ Carries(root, k, alts[l].v)
         /\ Carries(root, l, alts[l].v)

\* C9: injecting again, with the same mapping, into the tree the injection
\* produced changes no node, in either mode.
C9_InjectionIdempotent ==
    Injected =>
      Inject(root, trkpts, BuildMapAlt(trkpts, alts, 1, EmptyMap), INJECT_MODE).root = root

\* A completed run that overwrote a field a node already carried with a
\* different value.
C9_Witness ==
    /\ pc = "done"
    /\ \E k \in wrote :
         /\ FieldOf(Original, trkpts[k].ref, TargetField) # <<>>
         /\ FieldOf(Original, trkpts[k].ref, TargetField)
              # FieldOf(root, trkpts[k].ref, TargetField)

\* C10: the update count is the number of nodes the injector assigned: a
\* point is assigned, once, exactly when the altitude under its key is not
\* null; the node of any other point is as it was.
C10_UpdatedCountsWrites ==
    /\ Injected =>
         /\ updated = Cardinality(wrote)
         /\ updated = Cardinality({trkpts[k].ref : k \in wrote})
         /\ \A k \in 1..Len(trkpts) :
              IF alts[LastSame(k)] = Null
              THEN k \notin wrote /\ Untouched(root, k)
              ELSE k \in wrote /\ Carries(root, k, alts[LastSame(k)].v)
    /\ ~Injected => updated = 0 /\ wrote = {}

\* A completed run that updated some nodes and skipped others.
C10_Witness ==
    /\ pc = "done"
    /\ updated > 0
    /\ updated < Len(trkpts)

(***************************************************************************)
(* Order of collection                                                     *)
(***************************************************************************)

\* The collector has run.
Collected == root # <<>>

\* An object with lat and lon that both read as finite numbers.
Eligible(tree, id) ==
    /\ tree[id].kind = "obj"
    /\ HasOwnProperty(tree[id], "lat")
    /\ HasOwnProperty(tree[id], "lon")
    /\ StringToNumber(StringOf(tree, GetField(tree[id], "lat"))).fin
    /\ StringToNumber(StringOf(tree, GetField(tree[id], "lon"))).fin

\* The path from the root of the tree to a node: the indexes of the fields
\* followed.
RECURSIVE PathOf(_, _)
PathOf(tree, id) ==
    IF id = 1 THEN <<>>
    ELSE LET up == CHOOSE nk \in {<<n, k>> \in (1..Len(tree)) \X (1..Len(tree)) :
                                    k <= Len(tree[n].fields)} :
                     tree[nk[1]].fields[nk[2]].val = Ref(id)
         IN  Append(PathOf(tree, up[1]), up[2])

Paths == [d \in DOMAIN Docs |-> [id \in 1..Len(Docs[d]) |-> PathOf(Docs[d], id)]]

\* Pre-order of the tree: a node before its descendants, the fields of a
\* node in their order.
Before(p, q) ==
    \E m \in 0..Len(p) :
      /\ m <= Len(q)
      /\ SubSeq(p, 1, m) = SubSeq(q, 1, m)
      /\ \/ m = Len(p) /\ m < Len(q)
         \/ m < Len(p) /\ m < Len(q) /\ p[m + 1] < q[m + 1]

\* Some element of the text has two children of one tag with a child of
\* another tag between them.
RECURSIVE Interleaved(_)
Interleaved(kids) ==
    \/ \E j, k, l \in 1..Len(kids) :
         j < k /\ k < l /\ kids[j].tag = kids[l].tag /\ kids[k].tag # kids[j].tag
    \/ \E k \in 1..Len(kids) : Interleaved(kids[k].kids)

\* The position in the text of the element point k was collected from.
PosOf(k) == Parsed[input.doc].pos[trkpts[k].ref]

\* The collector lists each eligible node of the parsed tree once.
CollectsEligible ==
    /\ {trkpts[k].ref : k \in 1..Len(trkpts)}
         = {id \in 1..Len(Original) : Eligible(Original, id)}
    /\ \A j, k \in 1..Len(trkpts) : trkpts[j].ref = trkpts[k].ref => j = k

AcceptedForBatch ==
    resp.kind = "ok" /\ resp.isArray /\ Len(resp.results) = Len(batch)

\* At most one request is in flight, and one is exactly while the fetcher
\* awaits a response.
C12_OneInFlight ==
    /\ Len(inflight) <= 1
    /\ Len(inflight) = 1 <=> pc = "fetching"
    /\ pc = "fetching" =>
         /\ inflight[1] = Request(batch, API_KEY)
         /\ Len(alts) = batches[Len(batches)][1]

\* A step that issues a request finds none in flight; the step that issues
\* the first request of a further batch follows a response to the batch
\* before it that was accepted with the cardinality check passed, whose
\* results are all pushed.
C12_IssueStep ==
    /\ (inflight' # <<>> /\ inflight' # inflight) => inflight = <<>>
    /\ pc' = "fetching" /\ pc # "fetching" => Len(inflight') = 1
    /\ (Len(batches') > Len(batches) /\ Len(batches) >= 1) =>
         LET n == Len(batches)
         IN  /\ Len(batches') = n + 1
             /\ inflight = <<>>
             /\ pc = "pause"
             /\ AcceptedForBatch
             /\ Len(batch) = batches[n][2]
             /\ Len(alts) = batches[n][1] + batches[n][2]
             /\ batches'[n + 1][1] = Len(alts)
             /\ inflight' = <<Request(batch', API_KEY)>>
             /\ attempt' = 1

\* C12: at most one lookup request is in flight at any time, and the first
\* request of batch n+1 is issued only after batch n has returned a
\* successful response that passed the cardinality check.
C12_StrictlySequential == []C12_OneInFlight /\ [][C12_IssueStep]_vars

\* The third batch's request is in flight, a retry, after two batches whose
\* results are pushed.
C12_Witness ==
    /\ pc = "fetching"
    /\ Len(batches) = 3
    /\ attempt = 2
    /\ Len(inflight) = 1
    /\ Len(alts) = 2 * BATCH_SIZE

(***************************************************************************)
(* Failing fast                                                            *)
(***************************************************************************)

\* No request was ever issued: no batch was formed, no attempt was made, no
\* response was handled, none is awaited.
NoRequestIssued ==
    batches = <<>> /\ attempt = 0 /\ resp = NoResponse /\ inflight = <<>> /\ sent = 0

\* The input was neither read nor parsed.
InputUnread == xml = <<>> /\ root = <<>> /\ trkpts = <<>>

NoOutput == jsonFile = <<>> /\ gpxFile = <<>>

\* Without a credential a started script is in its failed state, and a
\* request with a file has started no process.
C13_NoKeyState ==
    API_KEY = "" =>
      /\ NoRequestIssued /\ InputUnread /\ NoOutput
      /\ pc \in {"start", "failed"} =>
           /\ srvPc = "none"
           /\ pc = "failed" => err = "MissingCredential"
      /\ srvPc # "none" =>
           /\ pc = "idle"
           /\ spawned = 0
           /\ (srvPc = "closed" /\ request.file) =>
                replies = <<Reply(500, "Server missing GOOGLE_MAPS_API_KEY")>>

\* Without a credential the script's first step is its failure, and the
\* handler's step on a request with a file is the 500 answer.
C13_NoKeyStep ==
    API_KEY = "" =>
      /\ pc = "start" => (pc' = "failed" /\ err' = "MissingCredential")
      /\ (srvPc = "received" /\ request.file) =>
           (srvPc' = "closed" /\ Len(replies') = 1 /\ replies'[1].status = 500)

\* C13: when neither --key nor the environment supplies a credential the
\* run fails with MissingCredential before any request is issued, before
\* the input is read and before any output is written; the server, handling
\* an upload without a credential in its environment, answers 500 and
\* starts no pipeline process.
C13_FailFastWithoutKey == []C13_NoKeyState /\ [][C13_NoKeyStep]_vars

\* A run from the command line without a credential has failed, on an input
\* that reads and parses and holds trackpoints, with the structured output
\* asked for.
C13_Witness ==
    /\ srvPc = "none"
    /\ pc = "failed"
    /\ err = "MissingCredential"
    /\ input.readOk /\ input.parseOk
    /\ ~NoTrackpoints(collectTrkptRefs(Docs[input.doc], Ref(1), <<>>))
    /\ ~NO_JSON

\* C14: when the collector finds no eligible node the run fails with
\* NoTrackpoints, having issued no lookup request and written no output;
\* and the run fails so only when the parsed tree holds no eligible node.
C14_EmptyCollectionAborts ==
    /\ (Collected /\ trkpts = <<>>) =>
         /\ pc = "failed"
         /\ err = "NoTrackpoints"
         /\ NoRequestIssued
         /\ NoOutput
         /\ updated = 0
         /\ root = Original
    /\ (pc = "failed" /\ err = "NoTrackpoints") =>
         /\ Collected
         /\ {id \in 1..Len(Original) : Eligible(Original, id)} = {}
    /\ pc \in {"fetching", "backoff", "pause", "done"} => trkpts # <<>>

\* A run asked for both outputs has failed on a text whose nodes carry a lat
\* but no lon, or a lat that is no number.
C14_Witness ==
    /\ pc = "failed"
    /\ err = "NoTrackpoints"
    /\ ~NO_JSON
    /\ \E id \in 1..Len(root) : root[id].kind = "obj" /\ HasOwnProperty(root[id], "lat")

(***************************************************************************)
(* Pauses and backoff                                                      *)
(***************************************************************************)

\* The pauses taken so far: one after every batch but the current one.
C15_PauseState ==
    /\ pc \in {"fetching", "backoff"} => pauses = Len(batches) - 1 /\ batches # <<>>
    /\ pc = "pause" => (pauses = Len(batches) /\ delay = 150)
    /\ LoopComplete =>
         /\ pauses = Len(batches) - 1
         /\ pauses = CeilDiv(Len(trkpts), BATCH_SIZE) - 1
    /\ pc \notin {"pause", "backoff"} => delay = 0

\* An accepted response is followed by a pause of 150 ms exactly when points
\* remain, at whichever attempt it came; the pause ends in the first request
\* of the next batch; a retry's backoff is no pause.
C15_PauseStep ==
    /\ (pc = "fetching" /\ resp'.kind = "ok" /\ resp'.isArray
          /\ Len(resp'.results) = Len(batch)) =>
         IF Len(alts) + Len(batch) < Len(trkpts)
         THEN pc' = "pause" /\ delay' = 150 /\ pauses' = pauses + 1 /\ attempt' = attempt
         ELSE pc' \in {"done", "failed"} /\ delay' = 0 /\ pauses' = pauses
    /\ pc' = "pause" => pc = "fetching"
    /\ pc = "pause" =>
         /\ pc' = "fetching"
         /\ delay' = 0
         /\ pauses' = pauses
         /\ Len(batches') = Len(batches) + 1
    /\ (pc' = "backoff" \/ pc = "backoff") => pauses' = pauses
    /\ pc' = "backoff" => delay' # 150

\* C15: a successful run over k batches takes exactly k-1 pauses of 150 ms,
\* one after each accepted batch that another follows and none after the
\* last; the pause is taken whatever the number of attempts the batch
\* needed, and a retry's backoff is not a pause.
C15_PausesBetweenBatches == []C15_PauseState /\ [][C15_PauseStep]_vars

\* A completed run over three batches, the last one short, took two pauses.
C15_Witness ==
    /\ pc = "done"
    /\ Len(batches) = 3
    /\ pauses = 2
    /\ Len(trkpts) < 3 * BATCH_SIZE

\* While the fetcher backs off, it does so for 250 ms times the number of
\* the attempt that failed, which is 1 or 2; a failed run is not waiting.
C16_BackoffState ==
    /\ attempt \in 0..3
    /\ pc = "backoff" => (attempt \in {1, 2} /\ delay = 250 * attempt /\ inflight = <<>>)
    /\ pc = "failed" => delay = 0

\* A failed attempt k < 3 starts a wait of k * 250 ms, at the end of which
\* attempt k + 1 is made for the same batch; a failed attempt 3 ends the run
\* in that step, with no wait.
C16_BackoffStep ==
    /\ (pc = "fetching" /\ resp'.kind \in {"neterr", "http", "status"}) =>
         IF attempt < 3
         THEN /\ pc' = "backoff"
              /\ delay' = attempt * 250
              /\ attempt' = attempt
              /\ inflight' = <<>>
         ELSE /\ pc' = "failed"
              /\ err' = "LookupFailure"
              /\ delay' = 0
              /\ inflight' = <<>>
    /\ pc = "backoff" =>
         /\ pc' = "fetching"
         /\ attempt' = attempt + 1
         /\ delay' = 0
         /\ batch' = batch
         /\ inflight' = <<Request(batch, API_KEY)>>
    /\ pc' = "backoff" => (pc = "fetching" /\ resp'.kind \in {"neterr", "http", "status"})

\* C16: after failed attempt k, k < 3, the fetcher waits k * 250 ms and then
\* makes attempt k + 1; after a failed third attempt it raises at once,
\* with no further wait.
C16_LinearBackoff == []C16_BackoffState /\ [][C16_BackoffStep]_vars

\* The second attempt of a later batch failed and the fetcher waits 500 ms.
C16_Witness ==
    /\ pc = "backoff"
    /\ attempt = 2
    /\ delay = 500
    /\ Len(batches) >= 2

(***************************************************************************)
(* What the injection leaves alone                                         *)
(***************************************************************************)

\* The fields of a node but the one called name, in their order.
RECURSIVE Others(_, _)
Others(fields, name) ==
    IF fields = <<>> THEN <<>>
    ELSE (IF fields[1].name = name THEN <<>> ELSE <<fields[1]>>)
         \o Others(Tail(fields), name)

\* The property the run's mode does not write.
OtherField == IF INJECT_MODE = "attr" THEN "ele" ELSE "alt"

\* The node differs from what it was in the field called name only: that
\* field stands where it stood, or is new and last.
OnlyFieldWritten(new, old, name) ==
    /\ new.kind = old.kind
    /\ Others(new.fields, name) = Others(old.fields, name)
    /\ Cardinality({k \in 1..Len(new.fields) : new.fields[k].name = name}) = 1
    /\ IF HasOwnProperty(old, name)
       THEN /\ Len(new.fields) = Len(old.fields)
            /\ \A k \in 1..Len(old.fields) : new.fields[k].name = old.fields[k].name
       ELSE /\ Len(new.fields) = Len(old.fields) + 1
            /\ new.fields[Len(new.fields)].name = name

\* After injection a node the injector assigned differs from the parsed one
\* in the field of the run's mode only (alt in "attr" mode, ele otherwise):
\* the field of the other mode, lat, lon and every other field are as
\* parsed; every other node is as parsed; before injection the tree is as
\* parsed.
C17_FrameState ==
    /\ INJECT_MODE \in {"attr", "ele"}
    /\ TargetField = (IF INJECT_MODE = "attr" THEN "alt" ELSE "ele")
    /\ (Collected /\ ~Injected) => root = Original
    /\ Injected =>
         /\ Len(root) = Len(Original)
         /\ \A id \in 1..Len(root) :
              IF \E k \in wrote : trkpts[k].ref = id
              THEN /\ OnlyFieldWritten(root[id], Original[id], TargetField)
                   /\ FieldOf(root, id, OtherField) = FieldOf(Original, id, OtherField)
                   /\ FieldOf(root, id, "lat") = FieldOf(Original, id, "lat")
                   /\ FieldOf(root, id, "lon") = FieldOf(Original, id, "lon")
              ELSE root[id] = Original[id]

\* C17: one injection mode applies to the whole run; in attribute mode only
\* the alt attribute of the updated nodes is written and every ele is left
\* as it was, in child-element mode only ele is written and every alt is
\* left as it was; lat, lon, every other field and every node that is not an
\* updated trackpoint are never modified.
C17_OneModeFrame == []C17_FrameState /\ [][INJECT_MODE' = INJECT_MODE]_vars

\* A completed run in attribute mode overwrote the alt of a node that also
\* holds an <ele>.
C17_Witness ==
    /\ pc = "done"
    /\ INJECT_MODE = "attr"
    /\ \E k \in wrote :
         /\ FieldOf(Original, trkpts[k].ref, "ele") # <<>>
         /\ FieldOf(Original, trkpts[k].ref, "alt") # <<>>
         /\ FieldOf(root, trkpts[k].ref, "alt") # FieldOf(Original, trkpts[k].ref, "alt")

(***************************************************************************)
(* Termination and the request budget (metered runs)                       *)
(***************************************************************************)

\* The pipeline process has been started / has exited.
Started == pc # "idle"

Terminal == pc \in {"done", "failed"}

\* The requests issued so far: at most three for each batch formed, hence at
\* most 3 * ceil(N/B); the current batch has used `attempt` of its three,
\* whatever the batches before it used.
C18_Budget ==
    /\ sent <= 3 * Len(batches)
    /\ Collected => sent <= 3 * CeilDiv(Len(trkpts), BATCH_SIZE)
    /\ attempt \in 0..3
    /\ pc \in {"fetching", "backoff", "pause"} =>
         /\ attempt \in 1..3
         /\ sent >= (Len(batches) - 1) + attempt
         /\ sent <= 3 * (Len(batches) - 1) + attempt
    /\ (pc = "failed" /\ err = "LookupFailure") => attempt = 3
    /\ (pc = "done" /\ srvPc \in {"none", "running", "reading"}) => gpxFile # <<>>

\* Every request is counted; a batch's first request is its attempt 1 and a
\* failed attempt below 3 is retried, however many requests were issued
\* before.
C18_BudgetStep ==
    /\ sent' = (IF inflight' # <<>> /\ inflight = <<>> THEN sent + 1 ELSE sent)
    /\ Len(batches') > Len(batches) => attempt' = 1
    /\ (pc = "fetching" /\ attempt < 3 /\ resp'.kind \in {"neterr", "http", "status"}) =>
         pc' = "backoff"
    /\ Terminal => UNCHANGED runVars \/ (pc = "done" /\ gpxFile' = <<>>)

\* C18: when every request is answered, with a response or a failure, every
\* started run reaches a terminal outcome (the output written, or a fatal
\* abort), having issued at most 3 * ceil(N/B) lookup requests; each batch
\* has three attempts of its own, whatever earlier batches used.
C18_BoundedTermination ==
    /\ []C18_Budget
    /\ [][C18_BudgetStep]_vars
    /\ Started ~> Terminal

\* A completed run of two batches in which each batch used its three
\* attempts.
C18_Witness ==
    /\ pc = "done"
    /\ Len(batches) = 2
    /\ sent = 6

(***************************************************************************)
(* The handler of POST /gpx-to-alt                                         *)
(***************************************************************************)

\* The request has been answered.
Replied == replies # <<>>

\* What has been answered, and what had happened when it was.
C19_ReplyState ==
    /\ Len(replies) <= 1
    /\ srvPc = "none" => (~Replied /\ spawned = 0 /\ ~tmpIn)
    /\ srvPc \in {"received", "running", "reading"} => ~Replied
    /\ srvPc \in {"cleanup", "closed"} => Replied
    /\ spawned \in {0, 1}
    /\ srvPc # "none" => (spawned = 1 <=> pc # "idle")
    /\ Replied =>
         LET r == replies[1]
         IN  /\ r.status \in {200, 400, 500}
             /\ r.status = 400 <=> ~request.file
             /\ ~request.file => (spawned = 0 /\ r.text = "No file")
             /\ (request.file /\ API_KEY = "") => (r.status = 500 /\ spawned = 0)
             /\ pc = "failed" => r.status = 500
             /\ r.status = 200 =>
                  /\ pc = "done"
                  /\ spawned = 1
                  /\ r.body = <<GpxOut(root)>>
             /\ r.status # 200 => r.body = <<>>
    /\ (request.file /\ ~tmpIn) => (Replied /\ replies[1].status = 200)
    /\ (srvPc # "none" /\ pc = "done" /\ gpxFile = <<>>) =>
         (Replied /\ replies[1].status = 200)
    /\ (Replied /\ replies[1].status # 200) => tmpIn = request.file

\* A response once sent stands, and the step that removes the temporary
\* files comes after the success response.
C19_ReplyStep ==
    /\ Replied => replies' = replies
    /\ ((tmpIn /\ ~tmpIn') \/ (srvPc # "none" /\ gpxFile # <<>> /\ gpxFile' = <<>>)) =>
         /\ Replied
         /\ replies[1].status = 200
         /\ ~tmpIn' /\ gpxFile' = <<>>

\* C19: every POST /gpx-to-alt request is answered exactly once (provided
\* the lookups of the pipeline it starts are answered): 400 when no file is
\* uploaded, 500 when the credential is missing or the pipeline fails, the
\* rewritten file only when the pipeline exited successfully; no pipeline is
\* started on the 400 and missing-credential paths; the temporary input and
\* output files are removed only after the success response was sent.
C19_OneResponse ==
    /\ []C19_ReplyState
    /\ [][C19_ReplyStep]_vars
    /\ (srvPc = "received") ~> (Len(replies) = 1)

\* The handler is through: the rewritten file, with updated nodes, was sent
\* and both temporary files are gone.
C19_Witness ==
    /\ srvPc = "closed"
    /\ replies[1].status = 200
    /\ ~tmpIn
    /\ gpxFile = <<>>
    /\ updated > 0
    /\ sent > Len(batches)

====
